---- MODULE Spec2Model ----
(***************************************************************************)
(* The streaming render pipeline of fastify-renderer's ReactRenderer:      *)
(* wrappedRender / startRenderBus, the in-process (development) render,    *)
(* and the worker-pool dispatcher workerStreamRender with its per-job      *)
(* messageHandler.                                                         *)
(*                                                                         *)
(* Collaborators whose code is not at hand, modelled from their contract:  *)
(*   - RenderBus (push / stacks),                                          *)
(*   - the pool returned by createPool (use = acquire, run, release),     *)
(*   - the render executor that pushes to a bus (ssr staticRender with a   *)
(*     bus) and the worker that relays its bus as StreamWorkerEvents.      *)
(*                                                                         *)
(* A worker's MessagePort is FIFO and a worker renders one message at a    *)
(* time, so "the worker posts an event" and "the main thread runs the      *)
(* 'message' listeners on it" are one step here (WorkerEvent).             *)
(***************************************************************************)
EXTENDS Integers, Sequences, FiniteSets, TLC

\* ---------------------------------------------------------------- bounds
NumJobs == 3
PoolSize == 2
MaxChunks == 2
NumHooks == 1

\* the registrations of one run of the route table
MaxRoutes == 3

\* the hooks handed to one call of staticRender
MaxHookList == 3

\* the length of a request url, in characters
MaxPathLen == 3

Jobs == 1..NumJobs

\* the worker threads a pool can have: os.cpus().length is at most PoolSize
Workers == 1..PoolSize

\* the requests of a run: NumJobs with a pool of one worker, one fewer for
\* each further worker
JobLimit(n) == NumJobs + 1 - n

\* StreamWorkerEvent.stack
Stacks == {"head", "tail", "content", "error"}

Modes == {"sync", "streaming"}

\* the processes hook modules are loaded in: the main process (in-process
\* renders) and each worker thread, which requires workerData.paths itself
MainProcess == 0

Processes == {MainProcess} \cup Workers

\* ------------------------------------------------------- the route handler
\* the Accept header of a request, as the route handler tells them apart
Accepts == {"html", "json", "other"}

\* a request: whether a hook or the props handler has sent a reply when the
\* render phase is reached, and what it accepts
Requests == [early : BOOLEAN, accept : Accepts]

NoRequest == [early |-> FALSE, accept |-> "none"]

\* a handler that renders whatever was replied before
NegotiateIgnoresEarly(req) ==
    CASE req.accept = "html" -> "render"
      [] req.accept = "json" -> "props"
      [] OTHER -> "unsupported"

\* a handler that renders for every supported Accept header
NegotiateAlwaysRenders(req) ==
    IF req.early THEN "early"
    ELSE CASE req.accept \in {"html", "json"} -> "render"
           [] OTHER -> "unsupported"

\* what the route handler does with a request once the props are there
Negotiate(req) ==
    IF req.early THEN "early"
    ELSE CASE req.accept = "html" -> "render"
           [] req.accept = "json" -> "props"
           [] OTHER -> "unsupported"

\* ------------------------------------------------------- string | null
\* A content value is null or a string. A string is tagged with the job whose
\* render produced it and its index n in that job's stack; n = 0 is the empty
\* string '' (falsy in JavaScript), n < 0 a script tag pushed by startRenderBus.
Null == [isNull |-> TRUE, job |-> 0, n |-> 0]

Chunk(j, n) == [isNull |-> FALSE, job |-> j, n |-> n]

EmptyString(j) == Chunk(j, 0)

\* JavaScript truthiness of a string | null value
Truthy(c) == ~c.isNull /\ c.n # 0

\* error.message of a failed render: '' (new Error()) or a non-empty text
ErrorMessages(j) == {EmptyString(j), Chunk(j, 1)}

StreamWorkerEvent(stack, content) == [stack |-> stack, content |-> content]

\* -------------------------------------------------------------- RenderBus
EmptyStack == [chunks |-> <<>>, ended |-> FALSE]

\* new RenderBus()
NewBus == [s \in Stacks |-> EmptyStack]

\* RenderBus.push(key, content, throwIfEnded): null ends the stack; a push onto
\* an ended stack never changes it, and is an error unless the caller passed
\* false as third argument.
PushOutcome(st, content, throwIfEnded) ==
    IF st.ended THEN (IF throwIfEnded THEN "rejected" ELSE "unrejected")
    ELSE "pushed"

PushStack(st, content, throwIfEnded) ==
    IF st.ended THEN st
    ELSE IF content.isNull THEN [st EXCEPT !.ended = TRUE]
    ELSE [st EXCEPT !.chunks = Append(@, content)]

push(b, stack, content, throwIfEnded) ==
    [b EXCEPT ![stack] = PushStack(@, content, throwIfEnded)]

\* ---------------------------------------------------------- the executor
\* One render (staticRender with a bus): the hooks' heads and tails, the end
\* of head, the content (one chunk in sync mode, chunks over time in
\* streaming mode), then the ends of content, tail and error. A throwing hook
\* or render capability yields one error event; the render is over and the
\* executor ends every stack that is still open, so that no reader of the
\* document is left waiting (the response of a failed render completes:
\* test 'broken components should not break server').
IdleRun == [job |-> 0, ph |-> "idle", k |-> 0]

\* a worker thread that has exited or hangs: it posts nothing any more
DeadRun == [job |-> 0, ph |-> "dead", k |-> 0]

Dead(r) == r.ph = "dead"

\* hooks that are resolved once, when the process loads them
UnthunkOnLoad(c) == c

\* resolving a counting hook (calling its thunk) advances the module's counter
Unthunk(c) == c + 1

StartRun(j) == [job |-> j, ph |-> "heads", k |-> 0]

Running(r) == r.ph \notin {"idle", "done", "failed", "dead"}

\* the order in which a failed render ends its open stacks
AbortOrder == <<"head", "content", "tail", "error">>

\* the set of <<event, next run state>> the executor can produce from r
ExecSteps(r, m) ==
    LET j == r.job
        \* head is the only stack a render can have ended when it fails
        fail == {<<StreamWorkerEvent("error", c),
                   [r EXCEPT !.ph = "abort",
                             !.k = IF r.ph = "render" THEN 1 ELSE 0]>> :
                   c \in ErrorMessages(j)}
    IN CASE r.ph = "heads" ->
              (IF r.k < NumHooks
                 THEN {<<StreamWorkerEvent("head", Chunk(j, r.k + 1)),
                         [r EXCEPT !.k = r.k + 1]>>}
                 ELSE {<<StreamWorkerEvent("tail", Chunk(j, 1)),
                         [r EXCEPT !.ph = "tails", !.k = 1]>>})
              \cup fail
         [] r.ph = "tails" ->
              (IF r.k < NumHooks
                 THEN {<<StreamWorkerEvent("tail", Chunk(j, r.k + 1)),
                         [r EXCEPT !.k = r.k + 1]>>}
                 ELSE {<<StreamWorkerEvent("head", Null),
                         [r EXCEPT !.ph = "render", !.k = 0]>>})
              \cup fail
         [] r.ph = "render" ->
              {<<StreamWorkerEvent("content", Chunk(j, r.k + 1)),
                 [r EXCEPT !.k = r.k + 1]>> :
                   x \in {y \in {0} : IF m = "sync" THEN r.k = 0
                                       ELSE r.k < MaxChunks}}
              \cup {<<StreamWorkerEvent("content", Null),
                      [r EXCEPT !.ph = "tailend"]>> :
                      x \in {y \in {0} : m = "streaming" \/ r.k = 1}}
              \cup {f \in fail : m = "streaming" \/ r.k = 0}
         [] r.ph = "tailend" ->
              {<<StreamWorkerEvent("tail", Null), [r EXCEPT !.ph = "errend"]>>}
         [] r.ph = "errend" ->
              {<<StreamWorkerEvent("error", Null), [r EXCEPT !.ph = "done"]>>}
         [] r.ph = "abort" ->
              {<<StreamWorkerEvent(AbortOrder[r.k + 1], Null),
                 IF r.k + 1 < Len(AbortOrder)
                   THEN [r EXCEPT !.k = r.k + 1]
                   ELSE [r EXCEPT !.ph = "failed", !.k = 0]>>}
         [] OTHER -> {}

\* ------------------------------------------------------------ route table
\* JavaScript strings are sequences of characters; null and undefined are
\* kept apart from '' by a flag.
Str(chars) == [isNull |-> FALSE, s |-> chars]

NullStr == [isNull |-> TRUE, s |-> <<>>]

\* JavaScript truthiness of a string | null value
TruthyStr(v) == ~v.isNull /\ v.s # <<>>

\* String.prototype.includes for one character
includes(s, c) == \E i \in 1..Len(s) : s[i] = c

\* String.prototype.startsWith
startsWith(s, prefix) ==
    Len(prefix) <= Len(s) /\ SubSeq(s, 1, Len(prefix)) = prefix

\* String.prototype.slice(n)
slice(s, n) == SubSeq(s, n + 1, Len(s))

\* String.prototype.replace('*', to): the first '*' only
RECURSIVE replaceStar(_, _)
replaceStar(s, to) ==
    IF s = <<>> THEN <<>>
    ELSE IF Head(s) = "*" THEN to \o Tail(s)
    ELSE <<Head(s)>> \o replaceStar(Tail(s), to)

stripBasePath(fullyQualifiedPath, base) ==
    IF startsWith(fullyQualifiedPath, base)
      THEN LET baseless == slice(fullyQualifiedPath, Len(base))
           IN IF baseless = <<>> THEN <<"/">> ELSE baseless
      ELSE fullyQualifiedPath

\* a score that does not know the wildcard
routeSortScoreNoWildcard(path) == IF includes(path, ":") THEN 1 ELSE 0

routeSortScore(path) ==
    IF includes(path, "*") THEN 2
    ELSE IF includes(path, ":") THEN 1
    ELSE 0

pathToRegexpify(path) == replaceStar(path, <<":", "s", "p", "l", "a", "t", "*">>)

\* Array.prototype.sort((a, b) => score(a) - score(b)): the sort is stable,
\* an element moves in front of those that compare greater only
RECURSIVE InsertRoute(_, _)
InsertRoute(sorted, r) ==
    IF sorted = <<>> THEN <<r>>
    ELSE LET last == sorted[Len(sorted)]
         IN IF routeSortScore(last.pathPattern.s) - routeSortScore(r.pathPattern.s) > 0
              THEN Append(InsertRoute(SubSeq(sorted, 1, Len(sorted) - 1), r), last)
              ELSE Append(sorted, r)

RECURSIVE SortRoutes(_)
SortRoutes(rs) ==
    IF rs = <<>> THEN <<>>
    ELSE InsertRoute(SortRoutes(SubSeq(rs, 1, Len(rs) - 1)), rs[Len(rs)])

\* a registration, with its place in this.renderables (reg)
Registration(pathPattern, renderable, base, reg) ==
    [pathPattern |-> pathPattern, renderable |-> renderable, base |-> base,
     reg |-> reg]

\* this.renderables with the place of each registration
Registered(rs) ==
    [i \in 1..Len(rs) |->
        Registration(rs[i].pathPattern, Str(rs[i].renderable), rs[i].base, i)]

\* this.renderables.find((route) => route.renderable == imperativeRenderable),
\* as far as its renderable goes (undefined: NullStr)
RECURSIVE find(_, _)
find(rs, renderable) ==
    IF rs = <<>> THEN NullStr
    ELSE IF Head(rs).renderable = renderable THEN Str(renderable)
    ELSE find(Tail(rs), renderable)

\* Object.assign({}, find(...), { pathPattern: imperativePathPattern }): the
\* object pushed for an imperative render; it is no element of
\* this.renderables (reg 0), and its renderable is undefined when find
\* finds nothing
routeObject(rs, q) ==
    Registration(q.imperativePathPattern,
                 find(rs, q.imperativeRenderable.s), q.base, 0)

\* a filter that keeps the registrations without a pathPattern
routeableWithoutFilter(rs, q) ==
    SelectSeq(Registered(rs), LAMBDA route : route.base = q.base)
    \o (IF TruthyStr(q.imperativePathPattern) /\ TruthyStr(q.imperativeRenderable)
          THEN <<routeObject(rs, q)>> ELSE <<>>)

\* the filter of load and the push that follows it
routeableRenderables(rs, q) ==
    SelectSeq(Registered(rs),
              LAMBDA route : route.base = q.base /\ ~route.pathPattern.isNull)
    \o (IF TruthyStr(q.imperativePathPattern) /\ TruthyStr(q.imperativeRenderable)
          THEN <<routeObject(rs, q)>> ELSE <<>>)

\* pathsToModules: the table the generated module exports
pathsToModules(rs, q) ==
    LET sorted == SortRoutes(routeableRenderables(rs, q))
    IN [i \in 1..Len(sorted) |->
          [url |-> pathToRegexpify(stripBasePath(sorted[i].pathPattern.s, q.base)),
           renderable |-> sorted[i].renderable,
           reg |-> sorted[i].reg]]

\* the registrations a run draws from: path-mounted ones under the bases ''
\* and '/b', and one imperative registration (no pathPattern)
RegistrationPool ==
    { [pathPattern |-> Str(<<"/", "a">>), renderable |-> <<"A">>, base |-> <<>>],
      [pathPattern |-> Str(<<"/", ":", "i", "d">>), renderable |-> <<"B">>, base |-> <<>>],
      [pathPattern |-> Str(<<"/", "*">>), renderable |-> <<"C">>, base |-> <<>>],
      [pathPattern |-> Str(<<"/", "c">>), renderable |-> <<"D">>, base |-> <<>>],
      [pathPattern |-> NullStr, renderable |-> <<"E">>, base |-> <<>>],
      [pathPattern |-> Str(<<"/", "b">>), renderable |-> <<"F">>, base |-> <<"/", "b">>],
      [pathPattern |-> Str(<<"/", "b", "/", ":", "i", "d">>), renderable |-> <<"G">>,
       base |-> <<"/", "b">>] }

\* this.renderables: up to MaxRoutes registrations, each registered once
RenderableLists ==
    UNION { { rs \in [1..n -> RegistrationPool] :
                \A i, k \in 1..n : rs[i] = rs[k] => i = k } : n \in 0..MaxRoutes }

\* the search parameters of a route table module id
TableQueries ==
    [asked : {TRUE},
     base : {<<>>, <<"/", "b">>},
     imperativePathPattern : {NullStr, Str(<<>>), Str(<<"/", "x">>),
                              Str(<<"/", ":", "y">>)},
     imperativeRenderable : {NullStr, Str(<<"E">>), Str(<<"Z">>)}]

NoQuery ==
    [asked |-> FALSE, base |-> <<>>, imperativePathPattern |-> NullStr,
     imperativeRenderable |-> NullStr]

\* --------------------------------------------------------- destinations
\* the characters of the urls and bases tried
PathChars == {"/", "a", "b"}

\* the strings of at most n characters
StringsUpTo(n) == UNION {[1..k -> PathChars] : k \in 0..n}

\* render.request.url and render.base
StripArgs == [url : StringsUpTo(MaxPathLen), base : StringsUpTo(MaxPathLen - 1)]

NoStripArgs == [url |-> <<>>, base |-> <<>>]

NoDestination == NullStr

\* ------------------------------------------- staticRender: transforms
\* A render tree is the list of the transforms applied to the composed app,
\* innermost first. A hook module either exports a transform (named by a
\* number) or none: transform is optional in FastifyRendererHook.
ComposedApp == <<>>

HookModule(t) == [hasTransform |-> t # 0, transform |-> t]

HookModules == {HookModule(t) : t \in 0..3}

\* hook.transform(app)
ApplyTransform(hook, app) == Append(app, hook.transform)

NotRendered == [done |-> FALSE, threw |-> "none", app |-> ComposedApp]

\* for (const hook of transformers) { app = hook.transform(app) }, then
\* renderToString(app). Calling the undefined transform of a hook that
\* exports none throws a TypeError.
RECURSIVE transformers(_, _)
transformers(hs, app) ==
    IF hs = <<>> THEN [done |-> TRUE, threw |-> "none", app |-> app]
    ELSE IF ~Head(hs).hasTransform
      THEN [done |-> TRUE, threw |-> "TypeError", app |-> app]
    ELSE transformers(Tail(hs), ApplyTransform(Head(hs), app))

\* the hooks of one call, in registration order
HookLists == UNION {[1..n -> HookModules] : n \in 0..MaxHookList}

\* ------------------------------------------------------------------ state
VARIABLES
    devMode,             \* plugin.devMode
    cpus,                \* os.cpus().length
    mode,                \* options.mode
    prepared,            \* prepare() has run its first statements (viteConfig)
    workerPool,          \* this.workerPool is set
    poolWorkers,         \* the workers create() has made and dispose() has ended
    manifestOk,          \* every registered renderable is in the server manifest
    request,             \* what each request asked for
    response,            \* what was sent as the reply of each request
    thrown,              \* the error wrappedRender threw for each request
    jobState,            \* where each request is
    bus,                 \* the RenderBus of each job
    promise,             \* the promise built in workerStreamRender
    expectedStreamEnds,  \* the Set of workerStreamRender, per job
    jobWorker,           \* the worker passed to the job's use() callback
    borrowedBy,          \* pool: the job each worker is lent to (0: idle)
    listeners,           \* worker.on('message'): the jobs whose handler is attached
    workerRun,           \* the render a worker is executing
    inbox,               \* the render inputs posted to a worker and not yet read
    devRun,              \* the in-process render of a development job
    hookCounter,         \* module state of a counting hook, per process
    hookSeen,            \* the hook state each render's resolved hook observed
    renderNo,            \* history: the rank of each render among the renders
    lentQuiet,           \* history: the worker lent to a job had nothing left of
                         \* earlier renders (no event to come, no handler)
    sent,                \* history: the events each job's render has produced
    pushFault,           \* history: a push onto an ended stack happened
    renderables,         \* this.renderables
    tableQuery,          \* the search parameters of the last route table load
    routeTable,          \* pathsToModules of the last route table load
    hookList,            \* the hook modules of a call of staticRender
    staticRendered,      \* what the call of staticRender came to
    stripArgs,           \* the url and the base of a render
    destination          \* stripBasePath(url, base)

\* what the renderer is configured with
config == <<devMode, cpus, mode, manifestOk>>

\* the worker threads
threads == <<workerRun, inbox>>

\* the hook module state and what the renders saw of it
hooks == <<hookCounter, hookSeen, renderNo>>

\* the request and the reply of each job
http == <<request, response, thrown>>

\* the registrations and the route table generated from them
routes == <<renderables, tableQuery, routeTable>>

\* the hooks of a call of staticRender and its outcome
transforms == <<hookList, staticRendered>>

\* the url and base of a render and its destination
paths == <<stripArgs, destination>>

vars == <<devMode, cpus, mode, manifestOk, prepared, workerPool, poolWorkers,
          request, response,
          thrown, jobState, bus, promise, expectedStreamEnds, jobWorker,
          borrowedBy, listeners, workerRun, inbox, devRun, hookCounter,
          hookSeen, renderNo, lentQuiet, sent, pushFault, renderables,
          tableQuery, routeTable, hookList, staticRendered, stripArgs,
          destination>>

\* this.workerPool is set by prepare() in production mode only
WorkerPoolSetup == workerPool

\* before createPool no worker exists
NoWorkers == [created |-> {}, disposed |-> {}]

\* createPool(factory, size): the pool calls create() size times
createPool(size) == [created |-> 1..size, disposed |-> {}]

\* a pool that disposes of the worker of a failed job when it gets it back
DisposedOnFailure(pw, w, p) ==
    IF p = "rejected" THEN [pw EXCEPT !.disposed = @ \cup {w}] ELSE pw

\* use() puts the worker back among the idle ones, whatever the outcome of
\* the callback's promise: dispose() runs at shutdown only
Returned(pw, w, p) == pw

\* the renderer and its requests before prepare()
Constructed ==
    /\ prepared = FALSE
    /\ workerPool = FALSE
    /\ poolWorkers = NoWorkers
    /\ request = [j \in Jobs |-> NoRequest]
    /\ response = [j \in Jobs |-> "none"]
    /\ thrown = [j \in Jobs |-> "none"]
    /\ jobState = [j \in Jobs |-> "new"]
    /\ bus = [j \in Jobs |-> NewBus]
    /\ promise = [j \in Jobs |-> "none"]
    /\ expectedStreamEnds = [j \in Jobs |-> {}]
    /\ jobWorker = [j \in Jobs |-> 0]
    /\ borrowedBy = [w \in Workers |-> 0]
    /\ listeners = [w \in Workers |-> {}]
    /\ workerRun = [w \in Workers |-> IdleRun]
    /\ inbox = [w \in Workers |-> <<>>]
    /\ devRun = [j \in Jobs |-> IdleRun]
    /\ hookCounter = [p \in Processes |-> 0]
    /\ hookSeen = [j \in Jobs |-> 0]
    /\ renderNo = [j \in Jobs |-> 0]
    /\ lentQuiet = [j \in Jobs |-> FALSE]
    /\ sent = [j \in Jobs |-> <<>>]
    /\ pushFault = "none"

Init ==
    /\ devMode \in BOOLEAN
    /\ cpus \in (IF devMode THEN {1} ELSE Workers)
    /\ mode \in Modes
    /\ manifestOk \in (IF devMode THEN {TRUE} ELSE BOOLEAN)
    /\ renderables = <<>>
    /\ tableQuery = NoQuery
    /\ routeTable = <<>>
    /\ hookList = <<>>
    /\ staticRendered = NotRendered
    /\ stripArgs = NoStripArgs
    /\ destination = NoDestination
    /\ Constructed

\* ---------------------------------------------------------------- prepare
\* prepare() up to its first await: viteConfig, renderables, devServer and
\* hookPaths are set. In development mode that is all of it.
Prepare ==
    /\ ~prepared
    /\ prepared' = TRUE
    /\ UNCHANGED <<config, routes, transforms, paths, lentQuiet, http,
                   hooks, workerPool, poolWorkers, jobState, bus, promise,
                   expectedStreamEnds, jobWorker, borrowedBy, listeners,
                   threads, devRun, sent, pushFault>>

\* a prepare() that builds the pool whatever the mode
CreatePoolInAnyMode ==
    /\ prepared
    /\ ~workerPool
    /\ manifestOk
    /\ workerPool' = TRUE
    /\ poolWorkers' = createPool(cpus)
    /\ UNCHANGED <<config, routes, transforms, paths, lentQuiet, http,
                   hooks, prepared, jobState, bus, promise,
                   expectedStreamEnds, jobWorker, borrowedBy, listeners,
                   threads, devRun, sent, pushFault>>

\* prepare() in production mode, after its awaits: every renderable's
\* entrypoint was found in the manifest and loaded, and createPool has
\* returned the pool. A renderable missing from the manifest makes prepare()
\* throw before createPool.
CreatePool ==
    /\ prepared
    /\ ~devMode
    /\ ~workerPool
    /\ manifestOk
    /\ workerPool' = TRUE
    /\ poolWorkers' = createPool(cpus)
    /\ UNCHANGED <<config, routes, transforms, paths, lentQuiet, http,
                   hooks, prepared, jobState, bus, promise,
                   expectedStreamEnds, jobWorker, borrowedBy, listeners,
                   threads, devRun, sent, pushFault>>

\* ------------------------------------------------------------ the request
\* requests arrive in the order of their numbers
NextRequest(j) == \A i \in Jobs : i < j => jobState[i] # "new"

\* request j arrives and the route handler takes it to the given outcome
Arrives(j, outcome) ==
    /\ jobState[j] = "new"
    /\ NextRequest(j)
    /\ j <= JobLimit(cpus)
    /\ \E req \in Requests :
         /\ Negotiate(req) = outcome
         /\ request' = [request EXCEPT ![j] = req]

\* the route handler ends the request without calling render(): a reply was
\* sent already, the props are sent as JSON, or the Accept header is refused
ReplyWithoutRender(j) ==
    /\ \E outcome \in {"early", "props", "unsupported"} :
         /\ Arrives(j, outcome)
         /\ response' = [response EXCEPT ![j] = outcome]
    /\ jobState' = [jobState EXCEPT ![j] = "replied"]
    /\ UNCHANGED <<config, routes, transforms, paths, lentQuiet, hooks,
                   prepared, workerPool, poolWorkers, thrown, bus, promise,
                   expectedStreamEnds, jobWorker, borrowedBy, listeners,
                   threads, devRun, sent, pushFault>>

\* --------------------------------------------------------- startRenderBus
\* the script tags pushed to 'tail': react-refresh (dev), the props, and the
\* entrypoint (dev: one script tag; production: the manifest's import tags)
BootTags(j) ==
    IF devMode THEN <<Chunk(j, -1), Chunk(j, -2), Chunk(j, -3)>>
    ELSE <<Chunk(j, -2), Chunk(j, -3)>>

\* the tags pushed before startRenderBus reads this.viteConfig, which is
\* undefined until prepare(): for the first tag in development mode, after
\* the props tag in production mode
BootTagsUnprepared(j) == IF devMode THEN <<>> ELSE <<Chunk(j, -2)>>

RECURSIVE PushAll(_, _, _)
PushAll(b, stack, cs) ==
    IF cs = <<>> THEN b
    ELSE PushAll(push(b, stack, Head(cs), TRUE), stack, Tail(cs))

startRenderBus(j) == PushAll(NewBus, "tail", BootTags(j))

\* ----------------------------------------------------- workerStreamRender
\* a seed that leaves the error stack out
SeedWithoutError == {"head", "tail", "content"}

\* new Set(['head', 'tail', 'content', 'error'])
ExpectedSeed == {"head", "tail", "content", "error"}

\* wrappedRender in production: the bus is started, the response is sent with
\* the pending stacks, and workerStreamRender seeds expectedStreamEnds and
\* calls workerPool.use, which queues the job at the pool.
ProdRender(j) ==
    /\ Arrives(j, "render")
    /\ ~devMode
    /\ WorkerPoolSetup
    /\ bus' = [bus EXCEPT ![j] = startRenderBus(j)]
    /\ response' = [response EXCEPT ![j] = "document"]
    /\ expectedStreamEnds' = [expectedStreamEnds EXCEPT ![j] = ExpectedSeed]
    /\ jobState' = [jobState EXCEPT ![j] = "queued"]
    /\ UNCHANGED <<config, routes, transforms, paths, lentQuiet, hooks,
                   prepared, workerPool, poolWorkers, thrown, promise,
                   jobWorker, borrowedBy, listeners, threads, devRun, sent,
                   pushFault>>

\* wrappedRender before prepare(): startRenderBus throws a TypeError on
\* this.viteConfig, before reply.send.
RenderThrows(j) ==
    /\ Arrives(j, "render")
    /\ ~prepared
    /\ bus' = [bus EXCEPT ![j] = PushAll(NewBus, "tail", BootTagsUnprepared(j))]
    /\ response' = [response EXCEPT ![j] = "failure"]
    /\ thrown' = [thrown EXCEPT ![j] = "TypeError"]
    /\ jobState' = [jobState EXCEPT ![j] = "threw"]
    /\ UNCHANGED <<config, routes, transforms, paths, lentQuiet, hooks,
                   prepared, workerPool, poolWorkers, promise,
                   expectedStreamEnds, jobWorker, borrowedBy, listeners,
                   threads, devRun, sent, pushFault>>

\* the error workerStreamRender throws while this.workerPool is null:
\* entrypointRequirePathForServer comes first, then the check of the pool
DispatchError(hasEntry) ==
    IF hasEntry THEN "WorkerPool not setup" ELSE "not in manifest"

\* wrappedRender in production after the first statements of prepare() and
\* without a pool: the bus is started and the response sent, then
\* workerStreamRender throws and the error is rethrown to the caller.
DispatchThrows(j) ==
    /\ Arrives(j, "render")
    /\ ~devMode
    /\ prepared
    /\ ~WorkerPoolSetup
    /\ bus' = [bus EXCEPT ![j] = startRenderBus(j)]
    /\ response' = [response EXCEPT ![j] = "document"]
    /\ \E hasEntry \in (IF manifestOk THEN {TRUE} ELSE BOOLEAN) :
         thrown' = [thrown EXCEPT ![j] = DispatchError(hasEntry)]
    /\ jobState' = [jobState EXCEPT ![j] = "threw"]
    /\ UNCHANGED <<config, routes, transforms, paths, lentQuiet, hooks,
                   prepared, workerPool, poolWorkers, promise,
                   expectedStreamEnds, jobWorker, borrowedBy, listeners,
                   threads, devRun, sent, pushFault>>

\* a live worker with no render in progress or posted and no handler attached
Quiet(w) ==
    /\ ~Dead(workerRun[w])
    /\ ~Running(workerRun[w])
    /\ inbox[w] = <<>>
    /\ listeners[w] = {}

\* createPool(factory, os.cpus().length): the workers of the pool
Pool == 1..cpus

\* a pool that lends a worker whether it is borrowed or not
EveryWorker == Pool

\* the pool lends an idle worker
IdleWorkers == {w \in Pool : borrowedBy[w] = 0}

\* callers waiting at the pool are served in the order of their calls
FirstWaiting(j) == \A i \in Jobs : i < j => jobState[i] # "queued"

\* the rank of the next render to start
NextRenderNo == 1 + Cardinality({i \in Jobs : renderNo[i] > 0})

\* workerPool.use runs the callback with a lent worker: the promise is
\* created, the handler attached and the render input posted to the worker.
\* A message posted to a dead worker is lost.
Lend(j, w) ==
    /\ jobState[j] = "queued"
    /\ FirstWaiting(j)
    /\ w \in IdleWorkers
    /\ borrowedBy' = [borrowedBy EXCEPT ![w] = j]
    /\ jobWorker' = [jobWorker EXCEPT ![j] = w]
    /\ promise' = [promise EXCEPT ![j] = "pending"]
    /\ listeners' = [listeners EXCEPT ![w] = @ \cup {j}]
    /\ inbox' = [inbox EXCEPT ![w] = IF Dead(workerRun[w]) THEN @
                                      ELSE Append(@, j)]
    /\ lentQuiet' = [lentQuiet EXCEPT ![j] = Quiet(w)]
    /\ jobState' = [jobState EXCEPT ![j] = "streaming"]
    /\ UNCHANGED <<config, routes, transforms, paths, http, hooks, prepared,
                   workerPool, poolWorkers, bus, expectedStreamEnds,
                   workerRun, devRun, sent, pushFault>>

\* a worker that is not rendering reads the next render input: the render
\* starts and resolves the hooks
WorkerStart(w) ==
    /\ ~Running(workerRun[w])
    /\ ~Dead(workerRun[w])
    /\ inbox[w] # <<>>
    /\ LET j == Head(inbox[w])
       IN /\ workerRun' = [workerRun EXCEPT ![w] = StartRun(j)]
          /\ inbox' = [inbox EXCEPT ![w] = Tail(@)]
          /\ hookSeen' = [hookSeen EXCEPT ![j] = hookCounter[w]]
          /\ hookCounter' = [hookCounter EXCEPT ![w] = Unthunk(@)]
          /\ renderNo' = [renderNo EXCEPT ![j] = NextRenderNo]
    /\ UNCHANGED <<config, routes, transforms, paths, lentQuiet, http,
                   prepared, workerPool, poolWorkers, jobState, bus,
                   promise, expectedStreamEnds, jobWorker, borrowedBy,
                   listeners, devRun, sent, pushFault>>

\* the worker thread a job was lent exits or stops responding; nothing
\* replaces it
WorkerDies(w) ==
    /\ borrowedBy[w] # 0
    /\ ~Dead(workerRun[w])
    /\ workerRun' = [workerRun EXCEPT ![w] = DeadRun]
    /\ inbox' = [inbox EXCEPT ![w] = <<>>]
    /\ UNCHANGED <<config, routes, transforms, paths, lentQuiet, http,
                   hooks, prepared, workerPool, poolWorkers, jobState, bus,
                   promise, expectedStreamEnds, jobWorker, borrowedBy,
                   listeners, devRun, sent, pushFault>>

\* ---------------------------------------------------------- messageHandler
\* if (stack === 'error' && content) reject(...)
Rejects(stack, content) == stack = "error" /\ Truthy(content)

\* a handler that pushes every chunk twice
ForwardTwice(b, stack, content) ==
    push(push(b, stack, content, FALSE), stack, content, FALSE)

\* bus.push(stack, content, false)
Forward(b, stack, content) == push(b, stack, content, FALSE)

\* a handler that never deletes from the set
ExpectedNeverShrinks(expected, stack, content) == expected

\* a handler that never finds the set empty
CompletesNever(expected, stack, content) == FALSE

\* if (content === null) expectedStreamEnds.delete(stack)
ExpectedAfter(expected, stack, content) ==
    IF content.isNull THEN expected \ {stack} ELSE expected

\* ... if (expectedStreamEnds.size === 0) { cleanup(); resolve() }
Completes(expected, stack, content) ==
    content.isNull /\ ExpectedAfter(expected, stack, content) = {}

\* a handler that also detaches itself when it rejects
DetachesOnReject(expected, stack, content) ==
    Completes(expected, stack, content) \/ Rejects(stack, content)

\* cleanup() is called (worker.off) only when the last end marker has arrived
Detaches(expected, stack, content) == Completes(expected, stack, content)

\* a promise that takes the outcome of the last call of resolve or reject
PromiseResettled(p, expected, stack, content) ==
    IF Rejects(stack, content) THEN "rejected"
    ELSE IF Completes(expected, stack, content) THEN "resolved"
    ELSE p

\* settling a promise that is already settled changes nothing
PromiseAfter(p, expected, stack, content) ==
    IF p # "pending" THEN p
    ELSE IF Rejects(stack, content) THEN "rejected"
    ELSE IF Completes(expected, stack, content) THEN "resolved"
    ELSE p

\* A worker posts the next event of its render and every handler attached to
\* the worker runs on it.
WorkerEvent(w) ==
    /\ Running(workerRun[w])
    /\ \E step \in ExecSteps(workerRun[w], mode) :
         LET ev == step[1]
             L == listeners[w]
         IN /\ workerRun' = [workerRun EXCEPT ![w] = step[2]]
            /\ sent' = [sent EXCEPT ![workerRun[w].job] = Append(@, ev)]
            /\ promise' = [j \in Jobs |->
                 IF j \in L
                   THEN PromiseAfter(promise[j], expectedStreamEnds[j],
                                     ev.stack, ev.content)
                   ELSE promise[j]]
            /\ bus' = [j \in Jobs |->
                 IF j \in L THEN Forward(bus[j], ev.stack, ev.content)
                 ELSE bus[j]]
            /\ expectedStreamEnds' = [j \in Jobs |->
                 IF j \in L
                   THEN ExpectedAfter(expectedStreamEnds[j], ev.stack, ev.content)
                   ELSE expectedStreamEnds[j]]
            \* cleanup(): worker.off('message', messageHandler)
            /\ listeners' = [listeners EXCEPT ![w] =
                 {j \in L : ~Detaches(expectedStreamEnds[j], ev.stack, ev.content)}]
            /\ pushFault' =
                 IF \E j \in L : PushOutcome(bus[j][ev.stack], ev.content, FALSE) # "pushed"
                   THEN "unrejected" ELSE pushFault
    /\ UNCHANGED <<config, routes, transforms, paths, lentQuiet, http,
                   hooks, prepared, workerPool, poolWorkers, jobState,
                   jobWorker, borrowedBy, inbox, devRun>>

\* a use() callback that returned without waiting for the stream
SettledAtOnce(p) == TRUE

\* the callback returns new Promise(...), settled only by resolve() or reject()
Settled(p) == p \in {"resolved", "rejected"}

\* workerPool.use releases the worker once the callback's promise is settled
Release(w) ==
    /\ borrowedBy[w] # 0
    /\ Settled(promise[borrowedBy[w]])
    /\ jobState' = [jobState EXCEPT ![borrowedBy[w]] = "released"]
    /\ borrowedBy' = [borrowedBy EXCEPT ![w] = 0]
    /\ poolWorkers' = Returned(poolWorkers, w, promise[borrowedBy[w]])
    /\ UNCHANGED <<config, routes, transforms, paths, lentQuiet, http,
                   hooks, prepared, workerPool, bus, promise,
                   expectedStreamEnds, jobWorker, listeners, threads,
                   devRun, sent, pushFault>>

\* ---------------------------------------------------------------- devRender
\* wrappedRender in development: the bus is started, the response is sent and
\* the module is loaded; staticRender then resolves the hooks and writes
\* directly to the bus.
DevRender(j) ==
    /\ Arrives(j, "render")
    /\ devMode
    /\ prepared
    /\ bus' = [bus EXCEPT ![j] = startRenderBus(j)]
    /\ response' = [response EXCEPT ![j] = "document"]
    /\ devRun' = [devRun EXCEPT ![j] = StartRun(j)]
    /\ hookSeen' = [hookSeen EXCEPT ![j] = hookCounter[MainProcess]]
    /\ hookCounter' = [hookCounter EXCEPT ![MainProcess] = Unthunk(@)]
    /\ renderNo' = [renderNo EXCEPT ![j] = NextRenderNo]
    /\ jobState' = [jobState EXCEPT ![j] = "rendering"]
    /\ UNCHANGED <<config, routes, transforms, paths, lentQuiet, prepared,
                   workerPool, poolWorkers, thrown, promise,
                   expectedStreamEnds, jobWorker, borrowedBy, listeners,
                   threads, sent, pushFault>>

DevStep(j) ==
    /\ jobState[j] = "rendering"
    /\ Running(devRun[j])
    /\ \E step \in ExecSteps(devRun[j], mode) :
         LET ev == step[1]
         IN /\ devRun' = [devRun EXCEPT ![j] = step[2]]
            /\ sent' = [sent EXCEPT ![j] = Append(@, ev)]
            /\ bus' = [bus EXCEPT ![j] = push(@, ev.stack, ev.content, TRUE)]
            /\ pushFault' =
                 IF PushOutcome(bus[j][ev.stack], ev.content, TRUE) # "pushed"
                   THEN "rejected" ELSE pushFault
    /\ UNCHANGED <<config, routes, transforms, paths, lentQuiet, http,
                   hooks, prepared, workerPool, poolWorkers, jobState,
                   promise, expectedStreamEnds, jobWorker, borrowedBy,
                   listeners, threads>>

\* -------------------------------------------------------------------- spec
Next ==
    \/ Prepare
    \/ CreatePool
    \/ \E j \in Jobs : ReplyWithoutRender(j)
    \/ \E j \in Jobs : ProdRender(j)
    \/ \E j \in Jobs : RenderThrows(j)
    \/ \E j \in Jobs : DispatchThrows(j)
    \/ \E j \in Jobs, w \in Workers : Lend(j, w)
    \/ \E w \in Workers : WorkerStart(w)
    \/ \E w \in Workers : WorkerDies(w)
    \/ \E w \in Workers : WorkerEvent(w)
    \/ \E w \in Workers : Release(w)
    \/ \E j \in Jobs : DevRender(j)
    \/ \E j \in Jobs : DevStep(j)

Spec == Init /\ [][Next]_vars

\* ------------------------------------------------- the route table module
\* the variables of the render pipeline
pipeline == <<config, http, hooks, threads, prepared, workerPool, poolWorkers,
              jobState, bus,
              promise, expectedStreamEnds, jobWorker, borrowedBy, listeners,
              devRun, lentQuiet, sent, pushFault>>

\* a renderer with its registrations, before any route table is asked for
RouteInit ==
    /\ devMode = FALSE
    /\ cpus = 1
    /\ mode = "sync"
    /\ manifestOk = TRUE
    /\ renderables \in RenderableLists
    /\ tableQuery = NoQuery
    /\ routeTable = <<>>
    /\ hookList = <<>>
    /\ staticRendered = NotRendered
    /\ stripArgs = NoStripArgs
    /\ destination = NoDestination
    /\ Constructed

\* routeTableVitePlugin().load(id) for a route table module id
load(q) ==
    /\ tableQuery' = q
    /\ routeTable' = pathsToModules(renderables, q)
    /\ UNCHANGED <<renderables, transforms, paths, pipeline>>

RouteNext == \E q \in TableQueries : load(q)

RouteSpec == RouteInit /\ [][RouteNext]_vars

\* ------------------------------------------------------------ definitions
Borrowed == {w \in Workers : borrowedBy[w] # 0}

\* the strings job j's render has produced for a stack, in order
RECURSIVE SentChunks(_, _)
SentChunks(evs, stack) ==
    IF evs = <<>> THEN <<>>
    ELSE IF Head(evs).stack = stack /\ ~Head(evs).content.isNull
      THEN <<Head(evs).content>> \o SentChunks(Tail(evs), stack)
      ELSE SentChunks(Tail(evs), stack)

SentEnd(j, stack) ==
    \E i \in 1..Len(sent[j]) : sent[j][i] = StreamWorkerEvent(stack, Null)

\* the claim's Failed: an error event with non-null content has arrived
ErrorArrived(j) ==
    \E i \in 1..Len(sent[j]) :
        sent[j][i].stack = "error" /\ ~sent[j][i].content.isNull

\* the claim's Completed: every expected stack has received its end marker
AllEnded(j) == \A s \in Stacks : SentEnd(j, s)

OwnChunks(j, stack) == SelectSeq(bus[j][stack].chunks, LAMBDA c : c.job = j)

BootChunks(j, stack) == IF stack = "tail" THEN BootTags(j) ELSE <<>>

Started(j) == jobState[j] # "new"

\* a live worker has delivered every event of every render posted to it
WorkerDrained(w) ==
    /\ w \in Workers
    /\ ~Dead(workerRun[w])
    /\ ~Running(workerRun[w])
    /\ inbox[w] = <<>>

\* the render of job j has produced its last event
RenderOver(j) ==
    IF devMode THEN devRun[j].ph \in {"done", "failed"}
    ELSE jobState[j] \in {"streaming", "released"}
           /\ WorkerDrained(jobWorker[j])

\* the job's bus was started and its stacks sent as the document
Rendered(j) == response[j] = "document"

\* ------------------------------------------------------------------ claims

\* C1: with any number of jobs dispatched against a pool of cpus workers, at
\* most cpus workers (those of the pool) are borrowed at any time, a worker a job is
\* streaming from is the one the pool lent to it, and no worker serves two
\* unsettled jobs at once.
C1_PoolBound ==
    /\ Cardinality(Borrowed) <= cpus
    /\ Borrowed \subseteq Pool
    /\ \A j \in Jobs : promise[j] = "pending" =>
          /\ jobWorker[j] \in Workers
          /\ borrowedBy[jobWorker[j]] = j
    /\ \A j1, j2 \in Jobs :
          (j1 # j2 /\ promise[j1] = "pending" /\ promise[j2] = "pending")
            => jobWorker[j1] # jobWorker[j2]

\* every worker is borrowed while a further job waits at the pool
C1_Witness ==
    /\ Borrowed = Pool
    /\ \A w \in Pool : promise[borrowedBy[w]] = "pending"
    /\ \E j \in Jobs : jobState[j] = "queued"

\* C2: a job that has reached Completed (all four end markers arrived) or
\* Failed (an error event with non-null content arrived) gets its handle
\* released. use() releases once the promise is settled, and only an event
\* can settle it: so when a live worker has delivered every event of every
\* render posted to it, the promise of a Completed or Failed job that still
\* holds the handle is settled, and Release can take the handle back.
C2_ReleasedOnEveryExit ==
    \A j \in Jobs :
        ( /\ jobState[j] = "streaming"
          /\ WorkerDrained(jobWorker[j])
          /\ (AllEnded(j) \/ ErrorArrived(j)) )
          => Settled(promise[j])

\* a job whose render failed has given its handle back
C2_Witness ==
    \E j \in Jobs : jobState[j] = "released" /\ ErrorArrived(j)

\* C3 (as claimed): a job's bus only ever receives the events of its own
\* render: every chunk it holds was produced by that render, and a stack of
\* it is ended only by that render's end marker.
C3_OnlyOwnEvents ==
    \A j \in Jobs : \A s \in Stacks :
        /\ \A i \in 1..Len(bus[j][s].chunks) : bus[j][s].chunks[i].job = j
        /\ bus[j][s].ended => SentEnd(j, s)

\* C4 (as claimed): once an error event with non-null content has arrived
\* for a dispatched job, its promise is rejected, whatever stacks are open.
C4_RejectsOnNonNullError ==
    \A j \in Jobs :
        (promise[j] # "none" /\ ErrorArrived(j)) => promise[j] = "rejected"

\* C5: expectedStreamEnds is seeded with the four stacks at dispatch, an end
\* marker the handler receives removes exactly its stack, and the promise
\* resolves exactly when the set is empty: never while one of the four stacks
\* of the bus has not received its end marker.
C5_ExpectedStreamEnds ==
    \A j \in Jobs :
        /\ jobState[j] = "queued" => expectedStreamEnds[j] = Stacks
        /\ promise[j] = "pending" =>
              /\ expectedStreamEnds[j] = {s \in Stacks : ~bus[j][s].ended}
              /\ expectedStreamEnds[j] # {}
        /\ promise[j] = "resolved" =>
              /\ expectedStreamEnds[j] = {}
              /\ \A s \in Stacks : bus[j][s].ended

\* a job completed: its promise resolved with the four stacks ended
C5_Witness ==
    \E j \in Jobs : promise[j] = "resolved" /\ AllEnded(j)

\* C6 (as claimed): for each job that renders and each stack, what the bus
\* holds of the job's render is exactly what the render produced for that
\* stack, in order, after the tags of startRenderBus: nothing dropped,
\* duplicated or reordered, and an end marker sent has ended the stack.
C6_PushOrder ==
    \A j \in Jobs : \A s \in Stacks :
        Rendered(j) =>
          /\ OwnChunks(j, s) = BootChunks(j, s) \o SentChunks(sent[j], s)
          /\ SentEnd(j, s) => bus[j][s].ended

\* C7 (as claimed): a push onto a stack that has received its end marker is
\* rejected with an error, never let through without one.
C7_LatePushRejected == pushFault # "unrejected"

\* C8 (as claimed): in every job of either mode, no chunk is in the content
\* stack unless the head stack has received its end marker.
C8_HeadEndsBeforeContent ==
    \A j \in Jobs : bus[j]["content"].chunks # <<>> => bus[j]["head"].ended

C10_FailureSurfaced ==
    \A j \in Jobs : \A i \in 1..Len(sent[j]) :
        (sent[j][i].stack = "error" /\ ~sent[j][i].content.isNull)
          => \E k \in 1..Len(bus[j]["error"].chunks) :
                bus[j]["error"].chunks[k] = sent[j][i].content

\* C11 (as claimed): in streaming mode, once a job's render has failed, the
\* job's content stack holds exactly the chunks the render yielded before
\* the error event, in yield order: nothing is pushed to it afterwards.
C11_ContentStopsAtError ==
    mode = "streaming" =>
      \A j \in Jobs :
          ErrorArrived(j) =>
            bus[j]["content"].chunks = SentChunks(sent[j], "content")

C13_DeadWorkerSurfaces ==
    (~ENABLED Next) =>
      \A j \in Jobs :
          (jobState[j] = "streaming" /\ Dead(workerRun[jobWorker[j]]))
            => promise[j] = "rejected"

\* what the bus of job j holds is what its render produced, all stacks ended
Served(j) ==
    \A s \in Stacks :
        /\ bus[j][s].chunks = BootChunks(j, s) \o SentChunks(sent[j], s)
        /\ bus[j][s].ended

\* the render of job j ran to its end without a failure
RenderSucceeded(j) == RenderOver(j) /\ AllEnded(j) /\ ~ErrorArrived(j)

Untouched(j) ==
    /\ bus[j] = NewBus
    /\ sent[j] = <<>>
    /\ renderNo[j] = 0
    /\ devRun[j] = IdleRun
    /\ promise[j] = "none"
    /\ jobWorker[j] = 0
    /\ expectedStreamEnds[j] = {}
    /\ thrown[j] = "none"

\* C15: when a hook or the props handler has sent a reply before the render
\* phase, the pipeline pushes nothing to the job's bus and starts no render,
\* and the reply delivered is the one that was sent.
C15_EarlyReplyPassesThrough ==
    \A j \in Jobs :
        request[j].early => (response[j] = "early" /\ Untouched(j))

\* a request was replied to early while another job's render was under way
C15_Witness ==
    \E i, j \in Jobs :
        /\ i < j
        /\ request[j].early
        /\ response[j] = "early"
        /\ Rendered(i)
        /\ sent[i] # <<>>
        /\ ~RenderOver(i)

\* job j's render has started
RenderStarted(j) == renderNo[j] > 0

\* the process job j's render runs in
RenderProcess(j) == IF devMode THEN MainProcess ELSE jobWorker[j]

RECURSIVE Unthunks(_)
Unthunks(ps) ==
    IF ps = {} THEN 0
    ELSE LET p == CHOOSE q \in ps : TRUE
         IN hookCounter[p] + Unthunks(ps \ {p})

\* the renders that started before job j's in the same process
EarlierRenders(j) ==
    {i \in Jobs : /\ RenderStarted(i)
                  /\ renderNo[i] < renderNo[j]
                  /\ RenderProcess(i) = RenderProcess(j)}

EntryPattern(e) ==
    IF e.reg = 0 THEN tableQuery.imperativePathPattern.s
    ELSE renderables[e.reg].pathPattern.s

IsStaticPattern(p) == ~includes(p, ":") /\ ~includes(p, "*")

IsWildcardPattern(p) == includes(p, "*")

\* static patterns rank first, wildcard patterns last
Rank(p) == IF IsStaticPattern(p) THEN 0 ELSE IF IsWildcardPattern(p) THEN 2 ELSE 1

\* the segments of a path or of a pattern
RECURSIVE SplitAcc(_, _, _)
SplitAcc(s, cur, acc) ==
    IF s = <<>> THEN (IF cur = <<>> THEN acc ELSE Append(acc, cur))
    ELSE IF Head(s) = "/"
      THEN SplitAcc(Tail(s), <<>>, IF cur = <<>> THEN acc ELSE Append(acc, cur))
    ELSE SplitAcc(Tail(s), Append(cur, Head(s)), acc)

Segments(s) == SplitAcc(s, <<>>, <<>>)

\* the client router's match of a path against a path-to-regexp pattern:
\* ':name' takes one segment, ':name*' takes the segments that remain
RECURSIVE MatchSegments(_, _)
MatchSegments(pat, path) ==
    IF pat = <<>> THEN path = <<>>
    ELSE IF Head(Head(pat)) = ":" /\ Head(pat)[Len(Head(pat))] = "*" THEN TRUE
    ELSE IF path = <<>> THEN FALSE
    ELSE IF Head(Head(pat)) = ":" THEN MatchSegments(Tail(pat), Tail(path))
    ELSE Head(pat) = Head(path) /\ MatchSegments(Tail(pat), Tail(path))

Matches(url, path) == MatchSegments(Segments(url), Segments(path))

\* the client router takes the first entry of the table that matches
RECURSIVE ResolveFrom(_, _, _)
ResolveFrom(table, path, i) ==
    IF i > Len(table) THEN 0
    ELSE IF Matches(table[i].url, path) THEN i
    ELSE ResolveFrom(table, path, i + 1)

Resolve(table, path) == ResolveFrom(table, path, 1)

\* the request paths, below the base
RequestPaths ==
    { <<"/">>, <<"/", "a">>, <<"/", "c">>, <<"/", "x">>, <<"/", "a", "/", "x">> }

TablePatterns == [i \in 1..Len(routeTable) |-> EntryPattern(routeTable[i])]

\* C17: the route table of a base lists every static pattern before every
\* parameter pattern and every parameter pattern before every wildcard
\* pattern; registrations of equal score keep their registration order; the
\* patterns /a, /:id, /* come out as /a, /:id, /* whatever the order of
\* registration; and a request path resolves to an entry that no matching
\* entry outranks.
C17_RouteOrder ==
    tableQuery.asked =>
      /\ \A i, k \in 1..Len(routeTable) :
           i < k => Rank(TablePatterns[i]) <= Rank(TablePatterns[k])
      /\ \A i, k \in 1..Len(routeTable) :
           (/\ i < k
            /\ Rank(TablePatterns[i]) = Rank(TablePatterns[k])
            /\ routeTable[i].reg # 0
            /\ routeTable[k].reg # 0)
           => routeTable[i].reg < routeTable[k].reg
      /\ (/\ Len(routeTable) = 3
          /\ {TablePatterns[i] : i \in 1..3}
               = {<<"/", "a">>, <<"/", ":", "i", "d">>, <<"/", "*">>})
         => TablePatterns = << <<"/", "a">>, <<"/", ":", "i", "d">>, <<"/", "*">> >>
      /\ \A path \in RequestPaths :
           LET matching == {i \in 1..Len(routeTable) :
                              Matches(routeTable[i].url, path)}
               first == Resolve(routeTable, path)
           IN matching # {} =>
                /\ first \in matching
                /\ \A i \in matching :
                     /\ Rank(TablePatterns[first]) <= Rank(TablePatterns[i])
                     /\ first <= i

\* /a, /:id and /* were registered with the wildcard first and the static
\* pattern last, the table of their base was generated, and a path that all
\* three match was resolved
C17_Witness ==
    /\ tableQuery.asked
    /\ Len(renderables) = 3
    /\ renderables[1].pathPattern = Str(<<"/", "*">>)
    /\ renderables[2].pathPattern = Str(<<"/", ":", "i", "d">>)
    /\ renderables[3].pathPattern = Str(<<"/", "a">>)
    /\ Len(routeTable) = 3
    /\ routeTable[1].url = <<"/", "a">>
    /\ Cardinality({i \in 1..3 : Matches(routeTable[i].url, <<"/", "a">>)}) = 3
    /\ Resolve(routeTable, <<"/", "a">>) = 1

\* the registrations mounted with a path pattern
PathMounted == {i \in 1..Len(renderables) : ~renderables[i].pathPattern.isNull}

\* the entries of the table that are no registration: the objects pushed
\* for an imperative render
PushedEntries == {i \in 1..Len(routeTable) : routeTable[i].reg = 0}

RenderCalled(j) ==
    jobState[j] \in {"queued", "streaming", "released", "rendering", "threw"}

\* C19: what a render route replies depends on the Accept header alone. A
\* markup preference calls the render and the document is the reply (unless
\* the render throws before reply.send); a data preference replies the
\* serialized props, starts no render and pushes nothing to any bus; any
\* other preference replies 'Content type not supported' and starts no
\* render.
C19_ContentNegotiation ==
    \A j \in Jobs :
        (Started(j) /\ ~request[j].early) =>
          /\ request[j].accept = "html" =>
                /\ RenderCalled(j)
                /\ response[j] \in {"document", "failure"}
                /\ thrown[j] # "TypeError" =>
                      (response[j] = "document" /\ bus[j] # NewBus)
          /\ request[j].accept = "json" =>
                (response[j] = "props" /\ Untouched(j))
          /\ request[j].accept = "other" =>
                (response[j] = "unsupported" /\ Untouched(j))

\* three requests with the three preferences were answered: one rendered
\* and produced events, one got the props, one was refused
C19_Witness ==
    \E i, j, k \in Jobs :
        /\ request[i].accept = "html" /\ ~request[i].early
        /\ Rendered(i) /\ sent[i] # <<>>
        /\ request[j].accept = "json" /\ ~request[j].early
        /\ response[j] = "props"
        /\ request[k].accept = "other" /\ ~request[k].early
        /\ response[k] = "unsupported"

\* nothing of job j reached the pool or a worker
NothingPosted(j) ==
    /\ jobWorker[j] = 0
    /\ promise[j] = "none"
    /\ expectedStreamEnds[j] = {}
    /\ renderNo[j] = 0
    /\ sent[j] = <<>>
    /\ \A w \in Workers :
         /\ borrowedBy[w] # j
         /\ workerRun[w].job # j
         /\ \A n \in 1..Len(inbox[w]) : inbox[w][n] # j

\* development mode: no pool, no handle lent, nothing posted, and every
\* render that started runs in the main process
InProcessOnly ==
    /\ ~WorkerPoolSetup
    /\ Borrowed = {}
    /\ \A j \in Jobs : jobWorker[j] = 0 /\ promise[j] = "none"
    /\ \A w \in Workers : workerRun[w] = IdleRun /\ inbox[w] = <<>>
    /\ \A j \in Jobs : RenderStarted(j) => devRun[j] # IdleRun

\* production mode: no render runs in the main process, and a render that
\* started was posted to a worker the pool lent
ThroughThePool ==
    \A j \in Jobs :
        /\ devRun[j] = IdleRun
        /\ RenderStarted(j) =>
              (WorkerPoolSetup /\ jobWorker[j] \in Pool)

\* workerStreamRender was called for job j while this.workerPool was null
DispatchedWithoutPool(j) ==
    ~devMode /\ jobState[j] = "threw" /\ response[j] = "document"

\* C20: in development mode no pool is created and no job borrows a handle,
\* every render runs in process; in production mode every render goes
\* through the pool, and a dispatch while the pool was never set up fails
\* with 'WorkerPool not setup' and posts nothing to a worker.
C20_ModeDispatch ==
    /\ devMode => InProcessOnly
    /\ ~devMode => ThroughThePool
    /\ \A j \in Jobs :
         DispatchedWithoutPool(j) =>
           (thrown[j] = "WorkerPool not setup" /\ NothingPosted(j))

\* C20 as the code has it: the same, but a render without a pool fails with
\* 'WorkerPool not setup' only if prepare() has set viteConfig and the
\* renderable is in the server manifest. A renderable missing from the
\* manifest fails with the manifest error, thrown before the pool is looked
\* at, and a render before prepare() fails in startRenderBus with a
\* TypeError before the reply is sent. Nothing is posted in any of the three.
C20_ModeDispatchByCase ==
    /\ devMode => InProcessOnly
    /\ ~devMode => ThroughThePool
    /\ \A j \in Jobs :
         DispatchedWithoutPool(j) =>
           /\ NothingPosted(j)
           /\ thrown[j] \in {"WorkerPool not setup", "not in manifest"}
           /\ manifestOk => thrown[j] = "WorkerPool not setup"
           /\ thrown[j] = "WorkerPool not setup" => prepared
    /\ \A j \in Jobs :
         (~devMode /\ jobState[j] = "threw" /\ response[j] # "document") =>
           /\ NothingPosted(j)
           /\ thrown[j] = "TypeError"
           /\ response[j] = "failure"
    /\ \A j \in Jobs :
         (~devMode /\ RenderCalled(j) /\ jobState[j] # "threw") =>
           thrown[j] = "none"

\* in production a render was dispatched before the pool was there and
\* failed with 'WorkerPool not setup'; the pool was then created and a later
\* render was posted to a worker
C20_Witness ==
    \E i, j \in Jobs :
        /\ DispatchedWithoutPool(i)
        /\ thrown[i] = "WorkerPool not setup"
        /\ WorkerPoolSetup
        /\ RenderStarted(j)
        /\ jobWorker[j] \in Pool

\* C21 (as claimed): a renderable missing from the server entrypoint
\* manifest fails the render before the response is sent and before the
\* stacks of the bus are handed to the document: the manifest error is never
\* thrown for a job whose document has been sent.
C21_ManifestErrorBeforeSend ==
    \A j \in Jobs : thrown[j] = "not in manifest" => ~Rendered(j)

\* ------------------------------------------------ the pool under fairness
\* a production renderer in sync mode whose renderables are all in the
\* manifest
PoolInit ==
    /\ devMode = FALSE
    /\ cpus \in Workers
    /\ mode = "sync"
    /\ manifestOk = TRUE
    /\ renderables = <<>>
    /\ tableQuery = NoQuery
    /\ routeTable = <<>>
    /\ hookList = <<>>
    /\ staticRendered = NotRendered
    /\ stripArgs = NoStripArgs
    /\ destination = NoDestination
    /\ Constructed

\* prepare(), the markup requests and the pool
PoolNext ==
    \/ Prepare
    \/ CreatePool
    \/ \E j \in Jobs : ProdRender(j)
    \/ \E j \in Jobs, w \in Workers : Lend(j, w)
    \/ \E w \in Workers : WorkerStart(w)
    \/ \E w \in Workers : WorkerDies(w)
    \/ \E w \in Workers : WorkerEvent(w)
    \/ \E w \in Workers : Release(w)

\* the event loop runs every callback that is ready: the pool hands an idle
\* worker to the first caller waiting and takes it back once the promise is
\* settled, and a live worker thread reads its messages and posts its events
PoolFairness ==
    /\ WF_vars(\E j \in Jobs, w \in Workers : Lend(j, w))
    /\ \A w \in Workers :
         /\ WF_vars(WorkerStart(w))
         /\ WF_vars(WorkerEvent(w))
         /\ WF_vars(Release(w))

PoolSpec == PoolInit /\ [][PoolNext]_vars /\ PoolFairness

\* job j waits at the pool
Waiting(j) == jobState[j] = "queued"

\* nothing of job j is with a worker: no worker was lent to it, no render
\* input of it was posted and no handler of it is attached
AtPoolBoundary(j) ==
    /\ jobWorker[j] = 0
    /\ promise[j] = "none"
    /\ renderNo[j] = 0
    /\ \A w \in Workers :
         /\ borrowedBy[w] # j
         /\ j \notin listeners[w]
         /\ workerRun[w].job # j
         /\ \A n \in 1..Len(inbox[w]) : inbox[w][n] # j

\* the worker job j was lent has died
WorkerOfDied(j) == jobWorker[j] # 0 /\ Dead(workerRun[jobWorker[j]])

\* the jobs with an unsettled promise a worker is lent to
PendingOn(w) == {j \in Jobs : promise[j] = "pending" /\ jobWorker[j] = w}

\* C22: a job dispatched while every handle is borrowed waits at the pool:
\* nothing of it is posted to a worker, and no worker holds more than one
\* pending job. While it waits the events of the renders under way can be
\* processed, and every render under way goes on to its last event. Once a
\* handle is idle the first job waiting is eventually lent a handle, and a
\* job that was lent a handle is eventually started, unless its worker died.
C22_Backpressure ==
    /\ [](\A j \in Jobs : Waiting(j) => AtPoolBoundary(j))
    /\ [](\A w \in Workers : Cardinality(PendingOn(w)) <= 1)
    /\ [](\A j \in Jobs, w \in Workers :
            (Waiting(j) /\ Running(workerRun[w])) => ENABLED WorkerEvent(w))
    /\ \A w \in Workers :
         Running(workerRun[w]) ~> ~Running(workerRun[w])
    /\ \A j \in Jobs :
         (Waiting(j) /\ FirstWaiting(j) /\ IdleWorkers # {}) ~> ~Waiting(j)
    /\ \A j \in Jobs :
         (jobWorker[j] # 0)
           ~> (RenderStarted(j) \/ WorkerOfDied(j))

\* every handle is borrowed, a job waits at the pool with nothing posted for
\* it, and a render under way has produced events
C22_Witness ==
    /\ Borrowed = Pool
    /\ \E j \in Jobs :
         /\ Waiting(j)
         /\ AtPoolBoundary(j)
         /\ \E i \in Jobs :
              /\ jobState[i] = "streaming"
              /\ sent[i] # <<>>
              /\ Running(workerRun[jobWorker[i]])

\* the strings the hooks of job j's render contribute to head and to tail
HookContributions(j) == [k \in 1..NumHooks |-> Chunk(j, k)]

\* a chunk of job j's render is in the content stack of its bus
ContentBegun(j) ==
    \E i \in 1..Len(bus[j]["content"].chunks) :
        bus[j]["content"].chunks[i].job = j

\* C23 (as claimed): when the first chunk of a job's render is pushed to
\* content, every head and tail contribution of the job is in its stack: the
\* script tags of startRenderBus and the hooks' heads() and tails() strings.
C23_HeadsAndTailsBeforeContent ==
    \A j \in Jobs :
        ContentBegun(j) =>
          /\ OwnChunks(j, "head") = HookContributions(j)
          /\ OwnChunks(j, "tail") = BootTags(j) \o HookContributions(j)

\* ------------------------------------------------ the transforms of hooks
\* a process that has loaded the hook modules of a call
TransformInit ==
    /\ devMode = TRUE
    /\ cpus = 1
    /\ mode = "sync"
    /\ manifestOk = TRUE
    /\ renderables = <<>>
    /\ tableQuery = NoQuery
    /\ routeTable = <<>>
    /\ hookList \in HookLists
    /\ staticRendered = NotRendered
    /\ stripArgs = NoStripArgs
    /\ destination = NoDestination
    /\ Constructed

\* staticRender, as far as the hooks' transforms go
staticRender ==
    /\ ~staticRendered.done
    /\ staticRendered' = transformers(hookList, ComposedApp)
    /\ UNCHANGED <<hookList, routes, paths, pipeline>>

TransformNext == staticRender

TransformSpec == TransformInit /\ [][TransformNext]_vars

\* the transforms of the hooks of a list that export one, in registration
\* order
RECURSIVE TransformsOf(_)
TransformsOf(hs) ==
    IF hs = <<>> THEN <<>>
    ELSE (IF Head(hs).hasTransform THEN <<Head(hs).transform>> ELSE <<>>)
         \o TransformsOf(Tail(hs))

\* C24 (as claimed): the tree that is serialized is the composed app with
\* the transform of each hook applied in registration order, each on the
\* output of the one before; a hook that exports no transform changes
\* nothing and does not make the render fail.
C24_TransformsInOrder ==
    staticRendered.done =>
      /\ staticRendered.threw = "none"
      /\ staticRendered.app = TransformsOf(hookList)

\* the end markers of head, tail and content of job j's render have arrived
NonErrorStacksEnded(j) ==
    \A s \in Stacks \ {"error"} : SentEnd(j, s)

\* C25 (as claimed): the protocol of a job is over as soon as head, tail and
\* content have each received their end marker, or an error event with
\* non-null content arrives: a dispatched job whose three non-error stacks
\* have ended and that received no non-null error is Completed, its promise
\* resolved, whether or not an end marker was sent for the error stack.
C25_CompletesWithoutErrorEnd ==
    \A j \in Jobs :
        (promise[j] # "none" /\ NonErrorStacksEnded(j) /\ ~ErrorArrived(j))
          => promise[j] = "resolved"

\* C26: the workers of the pool are fixed for its lifetime. createPool makes
\* exactly cpus workers, once; every worker lent is one of them; and while
\* jobs are dispatched, complete or fail, no worker is created or disposed
\* of: the set changes at the initialisation of the pool only.
C26_FixedWorkerSet ==
    /\ [](/\ WorkerPoolSetup =>
               /\ poolWorkers.created = Pool
               /\ Cardinality(poolWorkers.created) = cpus
          /\ ~WorkerPoolSetup => poolWorkers.created = {}
          /\ poolWorkers.disposed = {}
          /\ \A j \in Jobs :
               jobWorker[j] # 0 => jobWorker[j] \in poolWorkers.created)
    /\ [][poolWorkers' # poolWorkers => (~workerPool /\ workerPool')]_vars

\* with the pool of cpus workers in place, a job failed and gave its handle
\* back, and another job completed on a worker of the pool
C26_Witness ==
    /\ WorkerPoolSetup
    /\ poolWorkers.created = Pool
    /\ \E i, j \in Jobs :
         /\ jobState[i] = "released" /\ promise[i] = "rejected"
         /\ jobState[j] = "released" /\ promise[j] = "resolved"

\* C27 (as claimed): no message listener of any job is attached to a worker
\* that is idle in the pool, and a worker never has more than one listener:
\* on the Completed and on the Failed path the job's listener is removed no
\* later than the handle is released.
C27_NoListenerOnIdleWorker ==
    \A w \in Workers :
        /\ borrowedBy[w] = 0 => listeners[w] = {}
        /\ Cardinality(listeners[w]) <= 1

\* C28: the outcome of a job is settled at most once, and it is Completed
\* (promise resolved) or Failed (promise rejected), never one after the
\* other. Once a job has Failed on an error event, the end markers that
\* follow do not turn it into Completed; once it has Completed its handler
\* is detached, and no later event turns it into Failed or pushes to its bus.
C28_SettledOnce ==
    /\ [](\A j \in Jobs : \A w \in Workers :
            promise[j] = "resolved" => j \notin listeners[w])
    /\ [][\A j \in Jobs :
            /\ Settled(promise[j]) => promise'[j] = promise[j]
            /\ promise[j] = "resolved" => bus'[j] = bus[j]]_vars

\* a job Failed, the four end markers of its render reached its handler
\* afterwards (the set is empty, resolve() was called) and it is still
\* Failed; another job, lent a worker after it, has Completed
C28_Witness ==
    \E i, j \in Jobs :
        /\ i < j
        /\ promise[i] = "rejected"
        /\ expectedStreamEnds[i] = {}
        /\ AllEnded(i)
        /\ promise[j] = "resolved"
        /\ RenderSucceeded(j)

\* ------------------------------------------------- the destination of a render
\* a render with its request url and its base
StripInit ==
    /\ devMode = TRUE
    /\ cpus = 1
    /\ mode = "sync"
    /\ manifestOk = TRUE
    /\ renderables = <<>>
    /\ tableQuery = NoQuery
    /\ routeTable = <<>>
    /\ hookList = <<>>
    /\ staticRendered = NotRendered
    /\ stripArgs \in StripArgs
    /\ destination = NoDestination
    /\ Constructed

\* const destination = this.stripBasePath(render.request.url, render.base)
Destination ==
    /\ destination.isNull
    /\ destination' = Str(stripBasePath(stripArgs.url, stripArgs.base))
    /\ UNCHANGED <<stripArgs, routes, transforms, pipeline>>

StripNext == Destination

StripSpec == StripInit /\ [][StripNext]_vars

\* base is the beginning of p
BeginsWith(p, base) == \E n \in 0..Len(p) : SubSeq(p, 1, n) = base

\* C29 (as claimed): stripBasePath(p, base) is '/' when p equals base, p
\* itself when p does not begin with base, and otherwise the remainder r
\* with base followed by r equal to p; and for every p that begins with '/'
\* the destination begins with '/' as well.
C29_StripBasePath ==
    ~destination.isNull =>
      LET p == stripArgs.url
          base == stripArgs.base
          r == destination.s
      IN /\ p = base => r = <<"/">>
         /\ ~BeginsWith(p, base) => r = p
         /\ (BeginsWith(p, base) /\ p # base) => base \o r = p
         /\ (p # <<>> /\ Head(p) = "/") => (r # <<>> /\ Head(r) = "/")

====
